---- MODULE Spec2Model ----
(***************************************************************************)
(* Model of the authentication store (Zustand store `useAuthStore`) of the *)
(* Route Optimization System console.                                      *)
(*                                                                         *)
(* The store is one state object {user, isAuthenticated, isLoading, error} *)
(* mutated through `set` (a shallow merge).  login, register and logout    *)
(* are async functions: each runs synchronously up to its first `await`    *)
(* on the identity provider (Supabase), is suspended there, and continues  *)
(* atomically when the provider answers.  Several calls can be suspended   *)
(* at the same time; the provider's answers are nondeterministic.          *)
(*                                                                         *)
(* Strings of the source that hold non-ASCII letters are written here      *)
(* without the accents.                                                    *)
(***************************************************************************)
EXTENDS Naturals, FiniteSets, Sequences, TLC

VARIABLES
    store,   \* the Zustand state object: user, isAuthenticated, isLoading, error
    ops,     \* the async calls suspended at an await, by slot
    solo,    \* TRUE while the one call in flight has overlapped no other transition
    sinceLogout, \* "issued": a logout was called with logins in flight and nothing
             \* was called since; "cleared": and its signOut has succeeded
    awaiting, \* by slot, the component whose handler awaits the call's promise
    ev       \* the last step taken: which handler ran, on what provider answer

vars == <<store, ops, solo, sinceLogout, awaiting, ev>>

-----------------------------------------------------------------------------
(* Bounds and input domains *)

\* number of async calls that can be suspended at the same time
MaxOps == 2

Slots == 1..MaxOps

\* JS null / undefined for string-valued things, and the null user / record
null == "null"
undefined == "undefined"
nullUser == [null |-> TRUE]

Emails == {"a@b.com", "b@c.com"}
Passwords == {"secret"}
Usernames == {"bob"}
Ids == {"1"}

\* what the provider can hold in user_metadata.username / user_metadata.role
MetaUsernames == {undefined, "", "ana"}
MetaRoles == {undefined, "", "admin", "manager"}

\* messages of the errors the provider returns or throws
ProviderMsgs == {"Invalid login credentials", "Failed to fetch"}

\* the user records the provider answers with (data.user)
ProviderUsers ==
    [id : Ids, email : Emails,
     user_metadata : [username : MetaUsernames, role : MetaRoles]]

\* an awaited provider call either resolves with {data, error} or throws
\*   "user"  : data.user is a record, error is null
\*   "error" : data.user is null, error is an error object
\*   "empty" : data.user is null and error is null
\*   "throw" : the awaited promise rejects
AuthResponses ==
         [t : {"user"}, user : ProviderUsers]
    \cup [t : {"error"}, msg : ProviderMsgs]
    \cup [t : {"empty"}]
    \cup [t : {"throw"}, msg : ProviderMsgs]

\* from('users').select('email').eq('email', email).single()
\*   "found" : data is a row;  "none" : data is null (with or without error)
LookupResponses ==
         [t : {"found"}]
    \cup [t : {"none"}, withError : BOOLEAN]
    \cup [t : {"throw"}, msg : ProviderMsgs]

\* auth.signOut()
SignOutResponses ==
         [t : {"ok"}]
    \cup [t : {"error"}, msg : ProviderMsgs]
    \cup [t : {"throw"}, msg : ProviderMsgs]

-----------------------------------------------------------------------------
(* The store *)

LoginErrorMsg == "Email o contrasena invalidos. Por favor intente nuevamente."
DuplicateMsg == "Ya existe una cuenta con este email. Por favor inicie sesion."

\* `a || b` on strings: undefined, null and "" are falsy
OrElse(a, b) == IF a \in {undefined, null, ""} THEN b ELSE a

\* Zustand's set(partial): shallow merge of the partial into the state
set(st, partial) ==
    [k \in DOMAIN st |-> IF k \in DOMAIN partial THEN partial[k] ELSE st[k]]

\* a store created with the loading flag up
InitialState_Loading ==
    [user |-> nullUser, isAuthenticated |-> FALSE, isLoading |-> TRUE, error |-> null]

InitialState ==
    [user |-> nullUser, isAuthenticated |-> FALSE, isLoading |-> FALSE, error |-> null]

Idle == [kind |-> "idle"]
NoCall == [fn |-> "none"]

InFlight(i) == ops[i].kind # "idle"
FreeSlots == {i \in Slots : ~InFlight(i)}
LowestFree == CHOOSE i \in FreeSlots : \A j \in FreeSlots : i <= j
NoneInFlight == FreeSlots = Slots

\* an async function's promise: it rejects only if an exception leaves the body
Promise(escaped) == IF escaped THEN "rejected" ELSE "resolved"

\* the forms' `try { await login(...); navigate('/dashboard') } catch {}`
\* (the same lines in LoginForm and RegisterForm): where the form navigates
\* once the awaited promise has settled
FormAfterAwait(promise) == IF promise = "resolved" THEN "/dashboard" ELSE "none"

\* the layout's `await logout(); navigate('/login')`
LayoutAfterAwait(promise) == IF promise = "resolved" THEN "/login" ELSE "none"

\* the continuation of whoever awaits the call: it runs in the microtask that
\* follows the settlement, after the store's last set
AfterAwait(caller, promise) ==
    CASE caller \in {"loginForm", "registerForm"} -> FormAfterAwait(promise)
      [] caller = "layout" -> LayoutAfterAwait(promise)
      [] OTHER -> "none"

Init ==
    /\ store = InitialState
    /\ ops = [i \in Slots |-> Idle]
    /\ solo = FALSE
    /\ sinceLogout = "none"
    /\ awaiting = [i \in Slots |-> "none"]
    /\ ev = [step |-> "init", call |-> NoCall, navigate |-> "none"]

-----------------------------------------------------------------------------
(* login *)

\* a login that hard-codes the role instead of reading the metadata
LoginUser_FixedRole(u) ==
    [id |-> u.id,
     email |-> u.email,
     username |-> OrElse(u.user_metadata.username, u.email),
     role |-> "user"]

\* a login that falls back to the email only when the metadata has no
\* username at all (`??` in place of `||`)
LoginUser_NullishUsername(u) ==
    [id |-> u.id, email |-> u.email,
     username |-> IF u.user_metadata.username \in {undefined, null}
                  THEN u.email ELSE u.user_metadata.username,
     role |-> OrElse(u.user_metadata.role, "user")]

\* the user login builds from data.user
LoginUser(u) ==
    [id |-> u.id,
     email |-> u.email,
     username |-> OrElse(u.user_metadata.username, u.email),
     role |-> OrElse(u.user_metadata.role, "user")]

\* a try block that forgets `if (error) throw error`
LoginTry_IgnoresError(resp) ==
    IF resp.t = "throw" THEN [threw |-> TRUE, partial |-> <<>>]
    ELSE IF resp.t = "user"
         THEN [threw |-> FALSE,
               partial |-> [user |-> LoginUser(resp.user), isAuthenticated |-> TRUE,
                            isLoading |-> FALSE, error |-> null]]
         ELSE [threw |-> FALSE, partial |-> <<>>]

\* a try block that drops the answer of a call it takes for stale
LoginTry_DropsUser(resp) ==
    IF resp.t = "throw" THEN [threw |-> TRUE, partial |-> <<>>]
    ELSE IF resp.t = "error" THEN [threw |-> TRUE, partial |-> <<>>]
    ELSE [threw |-> FALSE, partial |-> [isLoading |-> FALSE]]

\* the try block after the await: what it sets, and whether it throws
LoginTry(resp) ==
    IF resp.t = "throw" THEN [threw |-> TRUE, partial |-> <<>>]
    ELSE IF resp.t = "error" THEN [threw |-> TRUE, partial |-> <<>>]
    ELSE IF resp.t = "user"
         THEN [threw |-> FALSE,
               partial |-> [user |-> LoginUser(resp.user), isAuthenticated |-> TRUE,
                            isLoading |-> FALSE, error |-> null]]
         ELSE [threw |-> FALSE, partial |-> <<>>]

\* a catch block that resets the flag and forgets the user record
LoginCatch_KeepsUser ==
    [escaped |-> FALSE,
     partial |-> [error |-> LoginErrorMsg, isLoading |-> FALSE,
                  isAuthenticated |-> FALSE]]

\* the catch block
LoginCatch ==
    [escaped |-> FALSE,
     partial |-> [error |-> LoginErrorMsg, isLoading |-> FALSE,
                  isAuthenticated |-> FALSE, user |-> nullUser]]

\* a login whose catch surfaces the provider's message
LoginResult_SurfacesMessage(resp) ==
    LET t == LoginTry(resp) IN
    IF t.threw
    THEN [escaped |-> FALSE,
          partial |-> [error |-> resp.msg, isLoading |-> FALSE,
                       isAuthenticated |-> FALSE, user |-> nullUser]]
    ELSE [escaped |-> FALSE, partial |-> t.partial]

\* the whole continuation of login after the await
LoginResult(resp) ==
    LET t == LoginTry(resp) IN
    IF t.threw THEN LoginCatch ELSE [escaped |-> FALSE, partial |-> t.partial]

\* a login that drops the session it is about to replace
LoginStart_ResetsSession(i, email, password) ==
    /\ store' = set(store, [isLoading |-> TRUE, error |-> null,
                            user |-> nullUser, isAuthenticated |-> FALSE])
    /\ ops' = [ops EXCEPT ![i] = [kind |-> "login", pc |-> "signIn",
                                   email |-> email, password |-> password,
                                   calls |-> <<"signInWithPassword">>]]
    /\ solo' = NoneInFlight
    /\ sinceLogout' = "none"

\* login's synchronous part: set({isLoading, error}), then the call is awaited
LoginStart(i, email, password) ==
    /\ store' = set(store, [isLoading |-> TRUE, error |-> null])
    /\ ops' = [ops EXCEPT ![i] = [kind |-> "login", pc |-> "signIn",
                                   email |-> email, password |-> password,
                                   calls |-> <<"signInWithPassword">>]]
    /\ solo' = NoneInFlight
    /\ sinceLogout' = "none"

\* login(email, password) up to the await on signInWithPassword
Login(email, password) ==
    /\ FreeSlots # {}
    /\ LET i == LowestFree IN
       /\ LoginStart(i, email, password)
       /\ ev' = [step |-> "login", slot |-> i,
                 call |-> [fn |-> "signInWithPassword", email |-> email,
                           password |-> password],
                 navigate |-> "none"]
    /\ UNCHANGED awaiting

\* a login that calls signInWithPassword a second time when the first call
\* threw
LoginSettle_RetriesOnThrow(i, resp) ==
    /\ ops[i].kind = "login"
    /\ IF resp.t = "throw" /\ Len(ops[i].calls) < 2
       THEN /\ ops' = [ops EXCEPT ![i].calls = Append(@, "signInWithPassword")]
            /\ ev' = [step |-> "loginRetry", slot |-> i, resp |-> resp,
                      call |-> [fn |-> "signInWithPassword",
                                email |-> ops[i].email,
                                password |-> ops[i].password],
                      navigate |-> "none"]
            /\ UNCHANGED <<store, solo, sinceLogout, awaiting>>
       ELSE LET r == LoginResult(resp) IN
            /\ store' = set(store, r.partial)
            /\ ev' = [step |-> "loginSettle", slot |-> i, resp |-> resp,
                      call |-> NoCall, promise |-> Promise(r.escaped),
                      solo |-> solo,
                      wasAuthenticated |-> store.isAuthenticated,
                      afterLogout |-> sinceLogout = "cleared",
                      calls |-> ops[i].calls,
                      navigate |-> AfterAwait(awaiting[i], Promise(r.escaped))]
            /\ ops' = [ops EXCEPT ![i] = Idle]
            /\ awaiting' = [awaiting EXCEPT ![i] = "none"]
            /\ solo' = FALSE
            /\ UNCHANGED sinceLogout

\* signInWithPassword answers and login runs to its end
LoginSettle(i, resp) ==
    /\ ops[i].kind = "login"
    /\ LET r == LoginResult(resp) IN
       /\ store' = set(store, r.partial)
       /\ ev' = [step |-> "loginSettle", slot |-> i, resp |-> resp,
                 call |-> NoCall, promise |-> Promise(r.escaped), solo |-> solo,
                 wasAuthenticated |-> store.isAuthenticated,
                 afterLogout |-> sinceLogout = "cleared",
                 calls |-> ops[i].calls,
                 navigate |-> AfterAwait(awaiting[i], Promise(r.escaped))]
    /\ ops' = [ops EXCEPT ![i] = Idle]
    /\ awaiting' = [awaiting EXCEPT ![i] = "none"]
    /\ solo' = FALSE
    /\ UNCHANGED sinceLogout

-----------------------------------------------------------------------------
(* register *)

\* a register that reads the username back from the provider, as login does
RegisterUser_FromMetadata(u, username) ==
    [id |-> u.id, email |-> u.email,
     username |-> OrElse(u.user_metadata.username, u.email), role |-> "user"]

\* the user register builds from data.user and its own username argument
RegisterUser(u, username) ==
    [id |-> u.id, email |-> u.email, username |-> username, role |-> "user"]

\* a catch block with login's fixed message
RegisterCatch_GenericMessage(msg) ==
    [escaped |-> FALSE,
     partial |-> [error |-> LoginErrorMsg, isLoading |-> FALSE,
                  isAuthenticated |-> FALSE, user |-> nullUser]]

\* a catch block that keeps the session another call has set
RegisterCatch_KeepsSession(msg) ==
    [escaped |-> FALSE, partial |-> [error |-> msg, isLoading |-> FALSE]]

\* the catch block: it surfaces the message of whatever was thrown
RegisterCatch(msg) ==
    [escaped |-> FALSE,
     partial |-> [error |-> msg, isLoading |-> FALSE,
                  isAuthenticated |-> FALSE, user |-> nullUser]]

\* a pre-check that only looks at thrown errors
RegisterLookupTry_NoDuplicateCheck(resp) ==
    IF resp.t = "throw" THEN [threw |-> TRUE, msg |-> resp.msg]
    ELSE [threw |-> FALSE]

\* a pre-check that reads the lookup's error and throws it
RegisterLookupTry_ThrowsOnLookupError(resp) ==
    IF resp.t = "throw" THEN [threw |-> TRUE, msg |-> resp.msg]
    ELSE IF resp.t = "found" THEN [threw |-> TRUE, msg |-> DuplicateMsg]
    ELSE IF resp.withError
         THEN [threw |-> TRUE,
               msg |-> "JSON object requested, multiple (or no) rows returned"]
         ELSE [threw |-> FALSE]

\* the try block between the lookup's answer and the call of signUp
RegisterLookupTry(resp) ==
    IF resp.t = "throw" THEN [threw |-> TRUE, msg |-> resp.msg]
    ELSE IF resp.t = "found" THEN [threw |-> TRUE, msg |-> DuplicateMsg]
    ELSE [threw |-> FALSE]

\* the try block after signUp's answer
RegisterSignUpTry(resp, username) ==
    IF resp.t \in {"throw", "error"} THEN [threw |-> TRUE, msg |-> resp.msg]
    ELSE IF resp.t = "user"
         THEN [threw |-> FALSE,
               partial |-> [user |-> RegisterUser(resp.user, username),
                            isAuthenticated |-> TRUE, isLoading |-> FALSE,
                            error |-> null]]
         ELSE [threw |-> FALSE, partial |-> <<>>]

RegisterResult(resp, username) ==
    LET t == RegisterSignUpTry(resp, username) IN
    IF t.threw THEN RegisterCatch(t.msg) ELSE [escaped |-> FALSE, partial |-> t.partial]

\* the signUp call register makes
SignUpCall(op) ==
    [fn |-> "signUp", email |-> op.email, password |-> op.password,
     data |-> [username |-> op.username, role |-> "user"]]

\* a register that calls signUp without waiting for the lookup's answer
RegisterStart_SignUpWithoutPrecheck(i, username, email, password) ==
    /\ store' = set(store, [isLoading |-> TRUE, error |-> null])
    /\ ops' = [ops EXCEPT ![i] = [kind |-> "register", pc |-> "signUp",
                                   username |-> username, email |-> email,
                                   password |-> password,
                                   calls |-> <<"lookup", "signUp">>,
                                   precheck |-> "pending"]]
    /\ solo' = NoneInFlight
    /\ sinceLogout' = "none"

\* register's synchronous part: set({isLoading, error}), then the lookup is awaited
RegisterStart(i, username, email, password) ==
    /\ store' = set(store, [isLoading |-> TRUE, error |-> null])
    /\ ops' = [ops EXCEPT ![i] = [kind |-> "register", pc |-> "lookup",
                                   username |-> username, email |-> email,
                                   password |-> password,
                                   calls |-> <<"lookup">>,
                                   precheck |-> "pending"]]
    /\ solo' = NoneInFlight
    /\ sinceLogout' = "none"

\* register(username, email, password) up to the await on the lookup
Register(username, email, password) ==
    /\ FreeSlots # {}
    /\ LET i == LowestFree IN
       /\ RegisterStart(i, username, email, password)
       /\ ev' = [step |-> "register", slot |-> i,
                 call |-> [fn |-> "lookup", email |-> email],
                 navigate |-> "none"]
    /\ UNCHANGED awaiting

\* the lookup answers: register fails in its catch, or goes on to call signUp
RegisterLookup(i, resp) ==
    /\ ops[i].kind = "register"
    /\ ops[i].pc = "lookup"
    /\ LET t == RegisterLookupTry(resp) IN
       IF t.threw
       THEN LET r == RegisterCatch(t.msg) IN
            /\ store' = set(store, r.partial)
            /\ ops' = [ops EXCEPT ![i] = Idle]
            /\ awaiting' = [awaiting EXCEPT ![i] = "none"]
            /\ solo' = FALSE
            /\ ev' = [step |-> "registerLookup", slot |-> i, resp |-> resp,
                      call |-> NoCall, settled |-> TRUE,
                      promise |-> Promise(r.escaped), solo |-> solo,
                      calls |-> ops[i].calls,
                      navigate |-> AfterAwait(awaiting[i], Promise(r.escaped))]
            /\ UNCHANGED sinceLogout
       ELSE /\ ops' = [ops EXCEPT ![i].pc = "signUp",
                                  ![i].calls = Append(@, "signUp"),
                                  ![i].precheck = resp.t]
            /\ ev' = [step |-> "registerLookup", slot |-> i, resp |-> resp,
                      call |-> SignUpCall(ops[i]), settled |-> FALSE,
                      navigate |-> "none"]
            /\ UNCHANGED <<store, solo, sinceLogout, awaiting>>

\* signUp answers and register runs to its end
RegisterSettle(i, resp) ==
    /\ ops[i].kind = "register"
    /\ ops[i].pc = "signUp"
    /\ LET r == RegisterResult(resp, ops[i].username) IN
       /\ store' = set(store, r.partial)
       /\ ev' = [step |-> "registerSettle", slot |-> i, resp |-> resp,
                 username |-> ops[i].username, call |-> NoCall,
                 promise |-> Promise(r.escaped), solo |-> solo,
                 wasAuthenticated |-> store.isAuthenticated,
                 calls |-> ops[i].calls,
                 navigate |-> AfterAwait(awaiting[i], Promise(r.escaped))]
    /\ ops' = [ops EXCEPT ![i] = Idle]
    /\ awaiting' = [awaiting EXCEPT ![i] = "none"]
    /\ solo' = FALSE
    /\ UNCHANGED sinceLogout

-----------------------------------------------------------------------------
(* logout *)

\* a logout that also resets the loading flag
LogoutTry_ResetsLoading(resp) ==
    IF resp.t \in {"throw", "error"} THEN [threw |-> TRUE, msg |-> resp.msg]
    ELSE [threw |-> FALSE,
          partial |-> [user |-> nullUser, isAuthenticated |-> FALSE,
                       isLoading |-> FALSE, error |-> null]]

\* the try block after signOut's answer
LogoutTry(resp) ==
    IF resp.t \in {"throw", "error"} THEN [threw |-> TRUE, msg |-> resp.msg]
    ELSE [threw |-> FALSE,
          partial |-> [user |-> nullUser, isAuthenticated |-> FALSE, error |-> null]]

\* a catch block that clears the local session on a failed sign-out
LogoutCatch_ClearsSession(msg) ==
    [escaped |-> FALSE,
     partial |-> [error |-> msg, user |-> nullUser, isAuthenticated |-> FALSE]]

\* the catch block
LogoutCatch(msg) == [escaped |-> FALSE, partial |-> [error |-> msg]]

\* a logout without its try/catch: the error leaves the function
LogoutResult_NoCatch(resp) ==
    LET t == LogoutTry(resp) IN
    IF t.threw THEN [escaped |-> TRUE, partial |-> <<>>]
    ELSE [escaped |-> FALSE, partial |-> t.partial]


LogoutResult(resp) ==
    LET t == LogoutTry(resp) IN
    IF t.threw THEN LogoutCatch(t.msg) ELSE [escaped |-> FALSE, partial |-> t.partial]

\* a logout that raises the loading flag as login and register do
LogoutStart_SetsLoading(i) ==
    /\ store' = set(store, [isLoading |-> TRUE])
    /\ ops' = [ops EXCEPT ![i] = [kind |-> "logout", pc |-> "signOut",
                                   calls |-> <<"signOut">>]]
    /\ solo' = NoneInFlight
    /\ sinceLogout' =
         IF /\ \E j \in Slots : ops[j].kind = "login"
            /\ \A j \in Slots : ops[j].kind # "logout"
         THEN "issued" ELSE "none"

\* logout's synchronous part: nothing is set, signOut is awaited
LogoutStart(i) ==
    /\ ops' = [ops EXCEPT ![i] = [kind |-> "logout", pc |-> "signOut",
                                   calls |-> <<"signOut">>]]
    /\ solo' = NoneInFlight
    /\ sinceLogout' =
         IF /\ \E j \in Slots : ops[j].kind = "login"
            /\ \A j \in Slots : ops[j].kind # "logout"
         THEN "issued" ELSE "none"
    /\ UNCHANGED store

\* logout() up to the await on signOut
Logout ==
    /\ FreeSlots # {}
    /\ LET i == LowestFree IN
       /\ LogoutStart(i)
       /\ ev' = [step |-> "logout", slot |-> i, call |-> [fn |-> "signOut"],
                 navigate |-> "none"]
    /\ UNCHANGED awaiting

\* signOut answers and logout runs to its end
LogoutSettle(i, resp) ==
    /\ ops[i].kind = "logout"
    /\ LET r == LogoutResult(resp) IN
       /\ store' = set(store, r.partial)
       /\ ev' = [step |-> "logoutSettle", slot |-> i, resp |-> resp,
                 call |-> NoCall, promise |-> Promise(r.escaped), solo |-> solo,
                 wasAuthenticated |-> store.isAuthenticated,
                 calls |-> ops[i].calls,
                 navigate |-> AfterAwait(awaiting[i], Promise(r.escaped))]
    /\ ops' = [ops EXCEPT ![i] = Idle]
    /\ awaiting' = [awaiting EXCEPT ![i] = "none"]
    /\ solo' = FALSE
    /\ sinceLogout' =
         IF sinceLogout = "issued" /\ resp.t = "ok" THEN "cleared" ELSE "none"

-----------------------------------------------------------------------------
(* clearError *)

\* a clearError that resets the loading flag as well
ClearErrorState_ResetsLoading(st) == set(st, [error |-> null, isLoading |-> FALSE])


\* a clearError that writes the empty string
ClearErrorState_EmptyString(st) == set(st, [error |-> ""])


ClearErrorState(st) == set(st, [error |-> null])

\* no login, register or logout has been called yet
Fresh == ev.step = "init" \/ (ev.step = "clearError" /\ ev.fresh)

ClearError ==
    /\ store' = ClearErrorState(store)
    /\ ev' = [step |-> "clearError", fresh |-> Fresh, call |-> NoCall,
              navigate |-> "none"]
    /\ solo' = FALSE
    /\ UNCHANGED <<ops, sinceLogout, awaiting>>

-----------------------------------------------------------------------------

Next ==
    \/ \E email \in Emails, password \in Passwords : Login(email, password)
    \/ \E i \in Slots, resp \in AuthResponses : LoginSettle(i, resp)
    \/ \E username \in Usernames, email \in Emails, password \in Passwords :
          Register(username, email, password)
    \/ \E i \in Slots, resp \in LookupResponses : RegisterLookup(i, resp)
    \/ \E i \in Slots, resp \in AuthResponses : RegisterSettle(i, resp)
    \/ Logout
    \/ \E i \in Slots, resp \in SignOutResponses : LogoutSettle(i, resp)
    \/ ClearError

Spec == Init /\ [][Next]_vars

-----------------------------------------------------------------------------
(* The login and register forms (components/auth/LoginForm.tsx) *)

\* what users type into the forms' fields
FormUsernames == {"bob", " "}
FormEmails == {"a@b.com", "b@c.com", "", " ", "a@b", " a@b.com"}
FormPasswords == {"secret", "12345", ""}

\* \s of the regular expression and of String.prototype.trim
Whitespace == {" ", "\t", "\n"}

charAt(str, i) == SubSeq(str, i, i)

\* String.prototype.trim
trim(str) ==
    LET kept == {i \in 1..Len(str) : charAt(str, i) \notin Whitespace} IN
    IF kept = {} THEN ""
    ELSE SubSeq(str, CHOOSE i \in kept : \A j \in kept : i <= j,
                     CHOOSE i \in kept : \A j \in kept : j <= i)

\* /^[^\s@]+@[^\s@]+\.[^\s@]+$/.test(email): one '@' that is not first, a '.'
\* after it with a character on each side, and neither whitespace nor
\* another '@' anywhere
validateEmail(email) ==
    \E at \in 1..Len(email), dot \in 1..Len(email) :
        /\ charAt(email, at) = "@"
        /\ charAt(email, dot) = "."
        /\ 1 < at
        /\ at + 1 < dot
        /\ dot < Len(email)
        /\ \A k \in (1..Len(email)) \ {at} :
              charAt(email, k) \notin (Whitespace \cup {"@"})

\* register's minimum password length
MinPasswordLength == 6

\* a login form that only checks that the email is there
LoginFormErrors_NoFormatCheck(email, password) ==
    [email |-> IF trim(email) = "" THEN "El email es requerido" ELSE "",
     password |-> IF password = "" THEN "La contrasena es requerida" ELSE ""]

\* newErrors of LoginForm.handleSubmit
LoginFormErrors(email, password) ==
    [email |-> IF trim(email) = "" THEN "El email es requerido"
               ELSE IF ~validateEmail(email)
                    THEN "Por favor ingrese un email valido"
                    ELSE "",
     password |-> IF password = "" THEN "La contrasena es requerida" ELSE ""]

\* a register form that forgets to compare the two passwords
RegisterFormErrors_NoConfirmCheck(username, email, password, confirmPassword) ==
    [username |-> IF trim(username) = "" THEN "El nombre de usuario es requerido"
                  ELSE "",
     email |-> IF trim(email) = "" THEN "El email es requerido"
               ELSE IF ~validateEmail(email)
                    THEN "Por favor ingrese un email valido"
                    ELSE "",
     password |-> IF password = "" THEN "La contrasena es requerida"
                  ELSE IF Len(password) < MinPasswordLength
                       THEN "La contrasena debe tener al menos 6 caracteres"
                       ELSE "",
     confirmPassword |-> ""]

\* newErrors of RegisterForm.handleSubmit
RegisterFormErrors(username, email, password, confirmPassword) ==
    [username |-> IF trim(username) = "" THEN "El nombre de usuario es requerido"
                  ELSE "",
     email |-> IF trim(email) = "" THEN "El email es requerido"
               ELSE IF ~validateEmail(email)
                    THEN "Por favor ingrese un email valido"
                    ELSE "",
     password |-> IF password = "" THEN "La contrasena es requerida"
                  ELSE IF Len(password) < MinPasswordLength
                       THEN "La contrasena debe tener al menos 6 caracteres"
                       ELSE "",
     confirmPassword |-> IF password # confirmPassword
                         THEN "Las contrasenas no coinciden" ELSE ""]

\* hasError: some field got a message
hasError(errors) == \E f \in DOMAIN errors : errors[f] # ""

\* the submit button and the inputs are disabled while isLoading
SubmitEnabled == ~store.isLoading

\* LoginForm.handleSubmit up to the await on login: setErrors and return, or
\* the call of login
LoginFormSubmit(email, password) ==
    /\ SubmitEnabled
    /\ LET newErrors == LoginFormErrors(email, password)
           input == [email |-> email, password |-> password] IN
       IF hasError(newErrors)
       THEN /\ ev' = [step |-> "loginSubmit", called |-> FALSE, input |-> input,
                      errors |-> newErrors, call |-> NoCall, navigate |-> "none"]
            /\ UNCHANGED <<store, ops, solo, sinceLogout, awaiting>>
       ELSE /\ FreeSlots # {}
            /\ LoginStart(LowestFree, email, password)
            /\ awaiting' = [awaiting EXCEPT ![LowestFree] = "loginForm"]
            /\ ev' = [step |-> "loginSubmit", called |-> TRUE, input |-> input,
                      slot |-> LowestFree,
                      call |-> [fn |-> "signInWithPassword", email |-> email,
                                password |-> password],
                      navigate |-> "none"]

\* RegisterForm.handleSubmit up to the await on register
RegisterFormSubmit(username, email, password, confirmPassword) ==
    /\ SubmitEnabled
    /\ LET newErrors == RegisterFormErrors(username, email, password, confirmPassword)
           input == [username |-> username, email |-> email, password |-> password,
                     confirmPassword |-> confirmPassword] IN
       IF hasError(newErrors)
       THEN /\ ev' = [step |-> "registerSubmit", called |-> FALSE, input |-> input,
                      errors |-> newErrors, call |-> NoCall, navigate |-> "none"]
            /\ UNCHANGED <<store, ops, solo, sinceLogout, awaiting>>
       ELSE /\ FreeSlots # {}
            /\ RegisterStart(LowestFree, username, email, password)
            /\ awaiting' = [awaiting EXCEPT ![LowestFree] = "registerForm"]
            /\ ev' = [step |-> "registerSubmit", called |-> TRUE, input |-> input,
                      slot |-> LowestFree,
                      call |-> [fn |-> "lookup", email |-> email],
                      navigate |-> "none"]

\* the store driven by the two forms
FormNext ==
    \/ \E email \in FormEmails, password \in FormPasswords :
          LoginFormSubmit(email, password)
    \/ \E username \in FormUsernames, email \in FormEmails,
          password \in FormPasswords, confirmPassword \in FormPasswords :
          RegisterFormSubmit(username, email, password, confirmPassword)
    \/ \E i \in Slots, resp \in AuthResponses : LoginSettle(i, resp)
    \/ \E i \in Slots, resp \in LookupResponses : RegisterLookup(i, resp)
    \/ \E i \in Slots, resp \in AuthResponses : RegisterSettle(i, resp)
    \/ ClearError

FormSpec == Init /\ [][FormNext]_vars

-----------------------------------------------------------------------------
(* The layout's logout control (components/layout/MainLayout.tsx) and the   *)
(* login form's password-reset request                                      *)

\* a handler that does not wait for logout before it navigates
LayoutLogout_NavigatesFirst ==
    /\ FreeSlots # {}
    /\ LET i == LowestFree IN
       /\ LogoutStart(i)
       /\ ev' = [step |-> "layoutLogout", slot |-> i,
                 call |-> [fn |-> "signOut"], navigate |-> "/login"]
    /\ UNCHANGED awaiting

\* handleLogout up to the await on logout; the button is never disabled
LayoutLogout ==
    /\ FreeSlots # {}
    /\ LET i == LowestFree IN
       /\ LogoutStart(i)
       /\ awaiting' = [awaiting EXCEPT ![i] = "layout"]
       /\ ev' = [step |-> "layoutLogout", slot |-> i,
                 call |-> [fn |-> "signOut"], navigate |-> "none"]

\* auth.resetPasswordForEmail(email, {redirectTo})
ResetResponses ==
         [t : {"ok"}]
    \cup [t : {"error"}, msg : ProviderMsgs]
    \cup [t : {"throw"}, msg : ProviderMsgs]

ResetFailedMsg ==
    "Error al enviar el email de restablecimiento. Por favor intente nuevamente."

\* the message handlePasswordReset puts under the email field before it
\* returns without a request, "" when it goes on
PasswordResetError(email) ==
    IF trim(email) = ""
    THEN "Por favor ingrese su email para restablecer la contrasena"
    ELSE IF ~validateEmail(email) THEN "Por favor ingrese un email valido"
         ELSE ""

\* handlePasswordReset up to the await on resetPasswordForEmail; its button
\* is not disabled while isLoading
PasswordReset(email) ==
    LET msg == PasswordResetError(email) IN
    IF msg # ""
    THEN /\ ev' = [step |-> "passwordReset", called |-> FALSE,
                   input |-> [email |-> email], errors |-> [email |-> msg],
                   call |-> NoCall, navigate |-> "none"]
         /\ UNCHANGED <<store, ops, solo, sinceLogout, awaiting>>
    ELSE /\ FreeSlots # {}
         /\ ops' = [ops EXCEPT ![LowestFree] =
                       [kind |-> "reset", pc |-> "resetPasswordForEmail",
                        email |-> email,
                        calls |-> <<"resetPasswordForEmail">>]]
         /\ ev' = [step |-> "passwordReset", called |-> TRUE,
                   input |-> [email |-> email], slot |-> LowestFree,
                   call |-> [fn |-> "resetPasswordForEmail", email |-> email],
                   navigate |-> "none"]
         /\ UNCHANGED <<store, solo, sinceLogout, awaiting>>

\* a handler that reports a failed request through the store's error
PasswordResetSettle_SetsStoreError(i, resp) ==
    /\ ops[i].kind = "reset"
    /\ store' = IF resp.t = "ok" THEN store
                ELSE set(store, [error |-> ResetFailedMsg])
    /\ ev' = [step |-> "passwordResetSettle", slot |-> i, resp |-> resp,
              call |-> NoCall, resetEmailSent |-> resp.t = "ok",
              errors |-> [email |-> ""], navigate |-> "none"]
    /\ ops' = [ops EXCEPT ![i] = Idle]
    /\ UNCHANGED <<solo, sinceLogout, awaiting>>

\* resetPasswordForEmail answers: setResetEmailSent(true) and the errors are
\* cleared, or the catch block puts its message under the email field
PasswordResetSettle(i, resp) ==
    /\ ops[i].kind = "reset"
    /\ ev' = [step |-> "passwordResetSettle", slot |-> i, resp |-> resp,
              call |-> NoCall, resetEmailSent |-> resp.t = "ok",
              errors |-> [email |-> IF resp.t = "ok" THEN "" ELSE ResetFailedMsg],
              navigate |-> "none"]
    /\ ops' = [ops EXCEPT ![i] = Idle]
    /\ UNCHANGED <<store, solo, sinceLogout, awaiting>>

\* what users type into the email fields, one value per outcome of the
\* handlers' checks
AppEmails == {"a@b.com", "a@b", ""}

\* the store driven by the forms and the layout
AppNext ==
    \/ \E email \in AppEmails, password \in Passwords :
          LoginFormSubmit(email, password)
    \/ \E username \in Usernames, email \in AppEmails, password \in Passwords :
          RegisterFormSubmit(username, email, password, password)
    \/ \E i \in Slots, resp \in AuthResponses : LoginSettle(i, resp)
    \/ \E i \in Slots, resp \in LookupResponses : RegisterLookup(i, resp)
    \/ \E i \in Slots, resp \in AuthResponses : RegisterSettle(i, resp)
    \/ LayoutLogout
    \/ \E i \in Slots, resp \in SignOutResponses : LogoutSettle(i, resp)
    \/ \E email \in AppEmails : PasswordReset(email)
    \/ \E i \in Slots, resp \in ResetResponses : PasswordResetSettle(i, resp)
    \/ ClearError

AppSpec == Init /\ [][AppNext]_vars

-----------------------------------------------------------------------------
(* Properties *)

LoginOrRegisterInFlight == \E i \in Slots : ops[i].kind \in {"login", "register"}

\* the state every failed login or register leaves, up to its message
ErrorState(msg) ==
    [user |-> nullUser, isAuthenticated |-> FALSE, isLoading |-> FALSE, error |-> msg]

\* C1: in every reachable state, also with calls still in flight,
\* isAuthenticated is true if and only if user is non-null.
C1_AuthenticatedIffUser == store.isAuthenticated <=> (store.user # nullUser)

\* an authenticated store with a second login suspended at its await
C1_Witness ==
    /\ store.isAuthenticated
    /\ store.user # nullUser
    /\ \E i \in Slots : ops[i].kind = "login"

\* C2: a login whose signInWithPassword answered with a user record, and that
\* overlapped no other transition, leaves isAuthenticated = true,
\* isLoading = false, error = null and a user with the provider's id and
\* email and the metadata's role, 'user' when the metadata has no role
\* (absent or empty: both are falsy for `||`).
C2_LoginSuccess ==
    (ev.step = "loginSettle" /\ ev.resp.t = "user" /\ ev.solo)
    => /\ store.isAuthenticated
       /\ ~store.isLoading
       /\ store.error = null
       /\ store.user # nullUser
       /\ store.user.id = ev.resp.user.id
       /\ store.user.email = ev.resp.user.email
       /\ store.user.role =
            IF ev.resp.user.user_metadata.role \in {undefined, ""}
            THEN "user" ELSE ev.resp.user.user_metadata.role

\* a lone login just succeeded for a user whose metadata carries a role
C2_Witness ==
    /\ ev.step = "loginSettle"
    /\ ev.resp.t = "user"
    /\ ev.solo
    /\ ev.resp.user.user_metadata.role = "admin"
    /\ store.user.role = "admin"

\* a lone login just succeeded for a user whose metadata has no role
C2_WitnessDefaultRole ==
    /\ ev.step = "loginSettle"
    /\ ev.resp.t = "user"
    /\ ev.solo
    /\ ev.resp.user.user_metadata.role = undefined
    /\ store.user.role = "user"

\* C3: a login whose signInWithPassword returned an error or threw leaves,
\* from any prior state, user = null, isAuthenticated = false,
\* isLoading = false and error = the one fixed message, which is non-empty
\* and is not the provider's message.
C3_LoginFailure ==
    (ev.step = "loginSettle" /\ ev.resp.t \in {"error", "throw"})
    => /\ store = ErrorState(LoginErrorMsg)
       /\ store.error # ""
       /\ store.error # null
       /\ store.error # ev.resp.msg

\* a login just failed in a store that was authenticated
C3_Witness ==
    /\ ev.step = "loginSettle"
    /\ ev.resp.t = "error"
    /\ ev.wasAuthenticated
    /\ store.error = LoginErrorMsg

\* C4: a register whose lookup returned a row makes no signUp call, is
\* settled by that step, and leaves user = null, isAuthenticated = false,
\* isLoading = false and error = the fixed duplicate-account message.
C4_RegisterDuplicate ==
    (ev.step = "registerLookup" /\ ev.resp.t = "found")
    => /\ ev.call = NoCall
       /\ ev.settled
       /\ ~InFlight(ev.slot)
       /\ store = ErrorState(DuplicateMsg)

\* a register just ended on a lookup that found the email
C4_Witness ==
    /\ ev.step = "registerLookup"
    /\ ev.resp.t = "found"
    /\ store.error = DuplicateMsg

\* C5: a register whose lookup found nothing and whose signUp answered with
\* a user record, and that overlapped no other transition, leaves
\* isAuthenticated = true, isLoading = false, error = null,
\* user.username = the username argument and user.role = 'user'.
C5_RegisterSuccess ==
    (ev.step = "registerSettle" /\ ev.resp.t = "user" /\ ev.solo)
    => /\ store.isAuthenticated
       /\ ~store.isLoading
       /\ store.error = null
       /\ store.user # nullUser
       /\ store.user.username = ev.username
       /\ store.user.role = "user"

\* a lone register just succeeded although the provider echoed another
\* username and another role
C5_Witness ==
    /\ ev.step = "registerSettle"
    /\ ev.resp.t = "user"
    /\ ev.solo
    /\ ev.resp.user.user_metadata.username = "ana"
    /\ ev.resp.user.user_metadata.role = "admin"
    /\ store.user.username = "bob"

\* C6 as stated: right after a logout whose signOut succeeded, from any
\* prior state, the store is exactly the initial state.
C6_LogoutYieldsInitialState ==
    (ev.step = "logoutSettle" /\ ev.resp.t = "ok") => store = InitialState

\* C6 as amended: the settlement of a logout whose signOut succeeded sets
\* user = null, isAuthenticated = false and error = null and leaves isLoading
\* as it was, so the result is the initial state exactly when isLoading was
\* false before the settlement.
C6_LogoutKeepsLoading ==
    [][(ev'.step = "logoutSettle" /\ ev'.resp.t = "ok")
       => /\ store' = [InitialState EXCEPT !.isLoading = store.isLoading]
          /\ (store' = InitialState <=> ~store.isLoading)]_vars

\* a logout just succeeded while a login is still suspended: isLoading stays
C6_Witness ==
    /\ ev.step = "logoutSettle"
    /\ ev.resp.t = "ok"
    /\ store.isLoading
    /\ store.user = nullUser
    /\ \E i \in Slots : ops[i].kind = "login"

\* C7: the settlement of a logout whose signOut failed changes only error,
\* which becomes the failure's message; user, isAuthenticated and isLoading
\* keep the values they had just before.
C7_LogoutFailureFrame ==
    [][(ev'.step = "logoutSettle" /\ ev'.resp.t \in {"error", "throw"})
       => store' = [store EXCEPT !.error = ev'.resp.msg]]_vars

\* a logout just failed and the user is still signed in
C7_Witness ==
    /\ ev.step = "logoutSettle"
    /\ ev.resp.t = "error"
    /\ store.isAuthenticated
    /\ store.user # nullUser
    /\ store.error = ev.resp.msg

\* C8: clearError, in any state, sets error = null and leaves user,
\* isAuthenticated and isLoading unchanged, and a second clearError right
\* after it changes nothing.
C8_ClearErrorFrame ==
    [][ev'.step = "clearError"
       => /\ store' = [store EXCEPT !.error = null]
          /\ ClearErrorState(store') = store'
          /\ ops' = ops]_vars

\* clearError just ran while a call is in flight and isLoading is true
C8_Witness ==
    /\ ev.step = "clearError"
    /\ store.isLoading
    /\ store.error = null
    /\ \E i \in Slots : InFlight(i)

\* C9: whatever the provider answered, the promise of a login, register or
\* logout that has settled is resolved, never rejected.
C9_NeverRejects ==
    (ev.step \in {"loginSettle", "registerSettle", "logoutSettle"}
       \/ (ev.step = "registerLookup" /\ ev.settled))
    => ev.promise = "resolved"

\* a logout whose signOut threw has settled, resolved, with the error in the store
C9_Witness ==
    /\ ev.step = "logoutSettle"
    /\ ev.resp.t = "throw"
    /\ ev.promise = "resolved"
    /\ store.error = ev.resp.msg

\* C10: whenever a login or register is in flight, isLoading is true.
C10_LoadingWhileInFlight == LoginOrRegisterInFlight => store.isLoading

\* C11: whenever no login or register is in flight, isLoading is false.
C11_IdleNotLoading == ~LoginOrRegisterInFlight => ~store.isLoading

\* C12: whenever user is non-null, user.role is 'admin' or 'user'.
C12_RoleInRange == store.user # nullUser => store.user.role \in {"admin", "user"}

\* C13: the store is created with user = null, isAuthenticated = false,
\* isLoading = false and error = null, and is in that state as long as no
\* login, register or logout has been called.
C13_InitialUntilFirstCall ==
    Fresh => store = [user |-> nullUser, isAuthenticated |-> FALSE,
                      isLoading |-> FALSE, error |-> null]

\* clearError has run on the store before any other call
C13_Witness ==
    /\ ev.step = "clearError"
    /\ ev.fresh
    /\ store.error = null
    /\ NoneInFlight

\* C16: a register whose lookup found nothing and whose signUp returned an
\* error or threw leaves user = null, isAuthenticated = false,
\* isLoading = false and error = that error's message, unchanged.
C16_RegisterFailure ==
    (ev.step = "registerSettle" /\ ev.resp.t \in {"error", "throw"})
    => /\ store.user = nullUser
       /\ ~store.isAuthenticated
       /\ ~store.isLoading
       /\ store.error = ev.resp.msg

\* a register just failed at signUp in a store another call had authenticated
C16_Witness ==
    /\ ev.step = "registerSettle"
    /\ ev.resp.t = "error"
    /\ ev.resp.msg = "Failed to fetch"
    /\ ev.wasAuthenticated
    /\ store.error = "Failed to fetch"
    /\ store.user = nullUser

\* the answers of signInWithPassword that make login fail
FailedAuthResponses == {r \in AuthResponses : r.t \in {"error", "throw"}}

\* C17: the state a failed login leaves is the state any other failure
\* (returned or thrown, with any message) would have left from the same
\* prior state.
C17_FailureCauseHidden ==
    [][(ev'.step = "loginSettle" /\ ev'.resp \in FailedAuthResponses)
       => \A other \in FailedAuthResponses :
             store' = set(store, LoginResult(other).partial)]_vars

\* a login just failed on a thrown transport error and left the fixed message
C17_Witness ==
    /\ ev.step = "loginSettle"
    /\ ev.resp.t = "throw"
    /\ ev.resp.msg = "Failed to fetch"
    /\ store.error = LoginErrorMsg
    /\ store.error # ev.resp.msg

\* C18: a login or register can be started while another call is in flight,
\* and the settlement of a login or register with a user record or a failure
\* fixes user, isAuthenticated and error from its own outcome alone,
\* whatever calls it overlapped and whatever they had set.
C18_LastResolvedWins ==
    /\ FreeSlots # {}
       => /\ ENABLED (\E e \in Emails, p \in Passwords : Login(e, p))
          /\ ENABLED (\E u \in Usernames, e \in Emails, p \in Passwords :
                         Register(u, e, p))
    /\ (ev.step = "loginSettle" /\ ev.resp.t = "user")
       => /\ store.isAuthenticated
          /\ store.error = null
          /\ store.user # nullUser
          /\ store.user.id = ev.resp.user.id
          /\ store.user.email = ev.resp.user.email
    /\ (ev.step = "loginSettle" /\ ev.resp.t \in {"error", "throw"})
       => /\ ~store.isAuthenticated
          /\ store.user = nullUser
          /\ store.error = LoginErrorMsg
    /\ (ev.step = "registerSettle" /\ ev.resp.t = "user")
       => /\ store.isAuthenticated
          /\ store.error = null
          /\ store.user # nullUser
          /\ store.user.id = ev.resp.user.id
          /\ store.user.email = ev.resp.user.email
          /\ store.user.username = ev.username
    /\ (ev.step = "registerSettle" /\ ev.resp.t \in {"error", "throw"})
       => /\ ~store.isAuthenticated
          /\ store.user = nullUser
          /\ store.error = ev.resp.msg
    /\ (ev.step = "registerLookup" /\ ev.settled)
       => /\ ~store.isAuthenticated
          /\ store.user = nullUser
          /\ store.error = IF ev.resp.t = "found" THEN DuplicateMsg ELSE ev.resp.msg

\* the last of several overlapping calls, a register, just failed in a store
\* that an earlier settlement had authenticated
C18_Witness ==
    /\ ev.step = "registerSettle"
    /\ ev.resp.t = "error"
    /\ ~ev.solo
    /\ ev.wasAuthenticated
    /\ NoneInFlight
    /\ store.user = nullUser
    /\ store.error = ev.resp.msg

\* the steps that end a call
Settles(e) ==
    \/ e.step \in {"loginSettle", "registerSettle", "logoutSettle"}
    \/ (e.step = "registerLookup" /\ e.settled)

\* C20: the start of a login or register sets isLoading = true and
\* error = null in the step that makes the first provider call and changes
\* nothing else, and no step other than a settlement changes user or
\* isAuthenticated.
C20_StartKeepsSession ==
    [][/\ ev'.step \in {"login", "register"}
          => /\ store' = [store EXCEPT !.isLoading = TRUE, !.error = null]
             /\ ev'.call.fn \in {"signInWithPassword", "lookup"}
       /\ ~Settles(ev')
          => /\ store'.user = store.user
             /\ store'.isAuthenticated = store.isAuthenticated]_vars

\* a login was just started by a user who is signed in
C20_Witness ==
    /\ ev.step = "login"
    /\ store.isAuthenticated
    /\ store.user # nullUser
    /\ store.isLoading
    /\ store.error = null

\* C19: a login that was in flight when a logout was called, with no login
\* or register called since, and that gets a user record after that logout's
\* signOut has succeeded, makes the store authenticated with a non-null
\* user; such an execution exists (the witness).
C19_LoginAfterLogoutAuthenticates ==
    (ev.step = "loginSettle" /\ ev.afterLogout /\ ev.resp.t = "user")
    => /\ store.isAuthenticated
       /\ store.user # nullUser
       /\ store.user.id = ev.resp.user.id

\* login, then logout, then signOut succeeds and clears the session, then
\* the login's signInWithPassword answers with a user: signed in again
C19_Witness ==
    /\ ev.step = "loginSettle"
    /\ ev.afterLogout
    /\ ev.resp.t = "user"
    /\ ~ev.wasAuthenticated
    /\ store.isAuthenticated
    /\ store.user # nullUser
    /\ NoneInFlight

\* C14: the register form calls register only when the username is
\* non-blank, the email is non-blank and email-shaped, the password has at
\* least 6 characters and equals the confirmation; otherwise register is not
\* called and the store is unchanged.
C14_RegisterFormGuards ==
    [][ev'.step = "registerSubmit"
       => LET in == ev'.input
              ok == /\ trim(in.username) # ""
                    /\ trim(in.email) # ""
                    /\ validateEmail(in.email)
                    /\ Len(in.password) >= 6
                    /\ in.password = in.confirmPassword
          IN /\ ev'.called
                => /\ ok
                   /\ ops'[ev'.slot].kind = "register"
                   /\ ops'[ev'.slot].username = in.username
                   /\ ops'[ev'.slot].email = in.email
                   /\ ops'[ev'.slot].password = in.password
             /\ ~ok
                => /\ ~ev'.called
                   /\ ev'.call = NoCall
                   /\ store' = store
                   /\ ops' = ops]_vars

\* a signed-in store, and a submission that fails only on the confirmation
C14_Witness ==
    /\ ev.step = "registerSubmit"
    /\ ~ev.called
    /\ ev.input = [username |-> "bob", email |-> "a@b.com", password |-> "secret",
                   confirmPassword |-> "12345"]
    /\ ev.errors.confirmPassword # ""
    /\ store.isAuthenticated
    /\ NoneInFlight

\* a valid submission has called register
C14_WitnessCalled ==
    /\ ev.step = "registerSubmit"
    /\ ev.called
    /\ ops[ev.slot].kind = "register"
    /\ store.isLoading

\* C15: the login form calls login only when the email is non-blank and
\* email-shaped and the password is non-empty; otherwise login is not called
\* and the store is unchanged.
C15_LoginFormGuards ==
    [][ev'.step = "loginSubmit"
       => LET in == ev'.input
              ok == /\ trim(in.email) # ""
                    /\ validateEmail(in.email)
                    /\ in.password # ""
          IN /\ ev'.called
                => /\ ok
                   /\ ops'[ev'.slot].kind = "login"
                   /\ ops'[ev'.slot].email = in.email
                   /\ ops'[ev'.slot].password = in.password
             /\ ~ok
                => /\ ~ev'.called
                   /\ ev'.call = NoCall
                   /\ store' = store
                   /\ ops' = ops]_vars

\* a signed-in store, and a submission whose email is there but ill-formed
C15_Witness ==
    /\ ev.step = "loginSubmit"
    /\ ~ev.called
    /\ ev.input = [email |-> " a@b.com", password |-> "secret"]
    /\ ev.errors.email = "Por favor ingrese un email valido"
    /\ store.isAuthenticated
    /\ NoneInFlight

\* C21: no call is retried.  Whatever the provider answers, a login has
\* called signInWithPassword exactly once, a logout has called signOut
\* exactly once, and a register has called the lookup exactly once and
\* signUp at most once (once when it got past the lookup), both while the
\* call is in flight and when it settles.
C21_NoRetry ==
    /\ \A i \in Slots :
          /\ ops[i].kind = "login" => ops[i].calls = <<"signInWithPassword">>
          /\ ops[i].kind = "logout" => ops[i].calls = <<"signOut">>
          /\ ops[i].kind = "register"
             => ops[i].calls = IF ops[i].pc = "lookup" THEN <<"lookup">>
                               ELSE <<"lookup", "signUp">>
    /\ ev.step = "loginSettle" => ev.calls = <<"signInWithPassword">>
    /\ ev.step = "logoutSettle" => ev.calls = <<"signOut">>
    /\ ev.step = "registerSettle" => ev.calls = <<"lookup", "signUp">>
    /\ (ev.step = "registerLookup" /\ ev.settled) => ev.calls = <<"lookup">>

\* a login whose one call threw has settled, failed, while a register that
\* got past its lookup is still waiting for signUp
C21_Witness ==
    /\ ev.step = "loginSettle"
    /\ ev.resp.t = "throw"
    /\ ev.calls = <<"signInWithPassword">>
    /\ store.error = LoginErrorMsg
    /\ \E i \in Slots : ops[i].kind = "register" /\ ops[i].pc = "signUp"

\* C22: within one register call, signUp is called only in the step in which
\* that call's lookup has answered, and only when the lookup answered
\* without an existing account: a register that has called signUp has
\* called the lookup before it and holds the lookup's answer "none".
C22_SignUpAfterPrecheck ==
    /\ \A i \in Slots :
          (ops[i].kind = "register" /\ ops[i].calls # <<"lookup">>)
          => /\ ops[i].calls = <<"lookup", "signUp">>
             /\ ops[i].precheck = "none"
    /\ ev.call.fn = "signUp"
       => /\ ev.step = "registerLookup"
          /\ ev.resp.t = "none"
          /\ ops[ev.slot].kind = "register"
          /\ ops[ev.slot].precheck = "none"
          /\ ev.call.email = ops[ev.slot].email

\* the lookup has just answered that no account holds the email, and the
\* register has gone on to call signUp
C22_Witness ==
    /\ ev.step = "registerLookup"
    /\ ev.resp = [t |-> "none", withError |-> FALSE]
    /\ ev.call.fn = "signUp"
    /\ ops[ev.slot].calls = <<"lookup", "signUp">>

\* the settlements in which a catch block runs
FailedSettlement(e) ==
    \/ /\ e.step \in {"loginSettle", "registerSettle", "logoutSettle"}
       /\ e.resp.t \in {"error", "throw"}
    \/ (e.step = "registerLookup" /\ e.settled)

\* C23: error gets a non-null value it did not hold before only in the
\* settlement of a failed login, register or logout.  The start of a login
\* or register and clearError leave it null, the start of a logout and a
\* lookup that lets register go on leave it as it was, and a settlement
\* without failure leaves it null or as it was.
C23_ErrorOnlyAtFailedSettlement ==
    [][/\ (store'.error # null /\ store'.error # store.error)
          => FailedSettlement(ev')
       /\ ev'.step \in {"login", "register", "clearError"}
          => store'.error = null
       /\ (ev'.step = "logout" \/ (ev'.step = "registerLookup" /\ ~ev'.settled))
          => store'.error = store.error
       /\ (Settles(ev') /\ ~FailedSettlement(ev'))
          => store'.error \in {null, store.error}]_vars

\* a logout whose signOut threw has just put the thrown message in error,
\* with a login still in flight
C23_Witness ==
    /\ ev.step = "logoutSettle"
    /\ ev.resp = [t |-> "throw", msg |-> "Failed to fetch"]
    /\ store.error = "Failed to fetch"
    /\ store.isLoading
    /\ \E i \in Slots : ops[i].kind = "login"

\* C26: logout never changes isLoading, neither in the step that calls
\* signOut nor in the step that settles it, with success or with failure; so
\* a logout that settles while a login or register is in flight and
\* isLoading is true leaves isLoading true.
C26_LogoutKeepsPending ==
    [][ev'.step \in {"logout", "logoutSettle"}
       => /\ store'.isLoading = store.isLoading
          /\ (LoginOrRegisterInFlight /\ store.isLoading) => store'.isLoading]_vars

\* a logout has just failed while a register waits for signUp: the loading
\* flag is still up
C26_Witness ==
    /\ ev.step = "logoutSettle"
    /\ ev.resp.t = "error"
    /\ store.isLoading
    /\ \E i \in Slots : ops[i].kind = "register" /\ ops[i].pc = "signUp"

\* C27: when the lookup resolves without a row, with or without an error of
\* its own, register goes on to call signUp and does not settle; when the
\* lookup throws, register settles in the error state with the thrown
\* message and has called nothing but the lookup.
C27_LookupWithoutRecordProceeds ==
    ev.step = "registerLookup"
    => /\ ev.resp.t = "none"
          => /\ ~ev.settled
             /\ ev.call.fn = "signUp"
             /\ ev.call.email = ops[ev.slot].email
             /\ ops[ev.slot].kind = "register"
             /\ ops[ev.slot].pc = "signUp"
       /\ ev.resp.t = "throw"
          => /\ ev.settled
             /\ ev.call = NoCall
             /\ ev.calls = <<"lookup">>
             /\ ops[ev.slot] = Idle
             /\ store = ErrorState(ev.resp.msg)

\* the lookup resolved with an error and no row, and register called signUp
C27_Witness ==
    /\ ev.step = "registerLookup"
    /\ ev.resp = [t |-> "none", withError |-> TRUE]
    /\ ~ev.settled
    /\ ev.call.fn = "signUp"

\* the lookup threw and register failed with the thrown message
C27_WitnessThrow ==
    /\ ev.step = "registerLookup"
    /\ ev.resp = [t |-> "throw", msg |-> "Failed to fetch"]
    /\ ev.settled
    /\ store.error = "Failed to fetch"

\* C29: a login that succeeded leaves a user whose username is the
\* metadata's username when that is present and non-empty and the account's
\* email otherwise; it is never empty, null or undefined.
C29_LoginDisplayName ==
    (ev.step = "loginSettle" /\ ev.resp.t = "user")
    => /\ store.user # nullUser
       /\ store.user.username =
            IF ev.resp.user.user_metadata.username \in {undefined, null, ""}
            THEN ev.resp.user.email
            ELSE ev.resp.user.user_metadata.username
       /\ store.user.username \notin {"", null, undefined}

\* a login succeeded for an account whose metadata username is the empty
\* string: the email is shown instead
C29_Witness ==
    /\ ev.step = "loginSettle"
    /\ ev.resp.t = "user"
    /\ ev.resp.user.user_metadata.username = ""
    /\ store.user.username = ev.resp.user.email

\* a login succeeded for an account whose metadata carries a username
C29_WitnessMetadata ==
    /\ ev.step = "loginSettle"
    /\ ev.resp.t = "user"
    /\ ev.resp.user.user_metadata.username = "ana"
    /\ store.user.username = "ana"

\* C24: the login form and the register form navigate to /dashboard only in
\* the settlement of the login or register they awaited and only when that
\* left isAuthenticated = true; a settlement that failed navigates nowhere.
C24_DashboardOnlyAfterSuccess ==
    /\ ev.navigate = "/dashboard"
       => /\ Settles(ev)
          /\ ev.step # "logoutSettle"
          /\ store.isAuthenticated
    /\ FailedSettlement(ev) => ev.navigate # "/dashboard"

\* C25: the layout navigates to /login only in the step in which the logout
\* it awaited settles: signOut has answered, logout's last set has been
\* applied to the store and the call is no longer in flight.
C25_LoginPageAfterLogoutSettled ==
    [][ev'.navigate = "/login"
       => /\ ev'.step = "logoutSettle"
          /\ ops[ev'.slot].kind = "logout"
          /\ awaiting[ev'.slot] = "layout"
          /\ ops'[ev'.slot] = Idle
          /\ ev'.promise = "resolved"
          /\ ev'.resp \in SignOutResponses
          /\ ev'.resp.t = "ok"
             => store' = [store EXCEPT !.user = nullUser,
                                       !.isAuthenticated = FALSE,
                                       !.error = null]
          /\ ev'.resp.t # "ok"
             => store' = [store EXCEPT !.error = ev'.resp.msg]]_vars

\* the layout's logout has settled with success and the layout has gone to
\* the login page with the session cleared
C25_Witness ==
    /\ ev.step = "logoutSettle"
    /\ ev.resp.t = "ok"
    /\ ev.navigate = "/login"
    /\ ev.wasAuthenticated
    /\ ~store.isAuthenticated

\* C28: the password-reset request changes nothing of the store, neither
\* when it is issued (or refused by the form's checks) nor when it settles,
\* with success or failure, with or without a login in flight; the store
\* changes only in the steps of login, register, logout and clearError.
C28_PasswordResetKeepsSession ==
    [][/\ ev'.step \in {"passwordReset", "passwordResetSettle"}
          => store' = store
       /\ store' # store
          => ev'.step \in {"loginSubmit", "loginSettle", "registerSubmit",
                           "registerLookup", "registerSettle", "logoutSettle",
                           "clearError"}]_vars

\* a password-reset request has just failed while a login is in flight
C28_Witness ==
    /\ ev.step = "passwordResetSettle"
    /\ ev.resp.t = "error"
    /\ ev.errors.email = ResetFailedMsg
    /\ store.isLoading
    /\ \E i \in Slots : ops[i].kind = "login"

\* a password-reset request has just succeeded on a signed-in store
C28_WitnessSent ==
    /\ ev.step = "passwordResetSettle"
    /\ ev.resp.t = "ok"
    /\ ev.resetEmailSent
    /\ store.isAuthenticated

====
